---- MODULE Spec2Model ----
(***************************************************************************)
(* Model of the Inception control plane of att/ryu:                        *)
(*   ryu/app/inception_dhcp.py   DHCP relay (update_server, handle)        *)
(*   ryu/app/inception_rpc.py    cross-datacenter RPC handlers             *)
(*   ryu/app/inception_util.py   string/tuple helpers, virtual MACs, ids   *)
(*   ryu/controller/dispatcher.py  EventQueue and EventDispatcher          *)
(* Each subsystem has its own specification over the shared variables;    *)
(* the variables of the other subsystems stay at their initial values.     *)
(* Strings that the code converts (str, int, split, join) are sequences    *)
(* of one-character strings, so that the conversions are computed.         *)
(***************************************************************************)
EXTENDS Integers, Sequences, FiniteSets, TLC

\* an optional value: None, or Some(x)
None == <<>>

Some(x) == <<x>>

Get(o) == o[1]

(***************************************************************************)
(* Python builtins and inception_util helpers on character sequences.      *)
(***************************************************************************)
Digits == <<"0", "1", "2", "3", "4", "5", "6", "7", "8", "9">>

HexDigits == Digits \o <<"a", "b", "c", "d", "e", "f">>

DigitVal(c) == (CHOOSE d \in 1..16 : HexDigits[d] = c) - 1

IsNumeral(s, base) ==
    /\ Len(s) > 0
    /\ \A i \in 1..Len(s) : \E d \in 1..base : HexDigits[d] = s[i]

RECURSIVE str(_)
str(n) ==
    IF n < 10 THEN <<Digits[n + 1]>>
    ELSE str(n \div 10) \o <<Digits[(n % 10) + 1]>>

RECURSIVE ParseNumeral(_, _)
ParseNumeral(s, base) ==
    IF Len(s) = 0 THEN 0
    ELSE base * ParseNumeral(SubSeq(s, 1, Len(s) - 1), base) + DigitVal(s[Len(s)])

\* int(s), defined when IsNumeral(s, 10); Python raises ValueError otherwise
int(s) == ParseNumeral(s, 10)

\* ryu.lib.dpid.str_to_dpid(s) = int(s, 16), defined when IsNumeral(s, 16)
str_to_dpid(s) == ParseNumeral(s, 16)

RECURSIVE join(_, _)
join(t, sep) ==
    IF Len(t) = 0 THEN <<>>
    ELSE IF Len(t) = 1 THEN t[1]
    ELSE t[1] \o <<sep>> \o join(Tail(t), sep)

RECURSIVE split(_, _)
split(s, sep) ==
    IF Len(s) = 0 THEN << <<>> >>
    ELSE LET rest == split(Tail(s), sep)
         IN  IF Head(s) = sep THEN << <<>> >> \o rest
             ELSE << <<Head(s)>> \o Head(rest) >> \o Tail(rest)

tuple_to_str(data_tuple) == join(data_tuple, ",")

str_to_tuple(data_string) == split(data_string, ",")

zk_data_to_tuple(data) == str_to_tuple(data)

\* Python truthiness of a string
Truthy(s) == s # <<>>

(***************************************************************************)
(* Bounds and the small input sets.                                        *)
(***************************************************************************)
MaxPort == 11

DHCP_SERVER_PORT == 67

DHCP_CLIENT_PORT == 68

OTHER_UDP_PORT == 53

ETH_TYPE_IP == 2048

ETH_TYPE_ARP == 2054

IPPROTO_UDP == 17

IPPROTO_TCP == 6

\* switch ports handed to update_server / stored in the directory
Ports == {0, MaxPort}

\* datapath ids as the strings the code stores ("01" = 1, "0a" = 10)
DpidStrs == { <<"0", "1">>, <<"0", "a">> }

Macs == {"m1", "m2"}

Payloads == {"d1", "d2"}

BindProcs == {"b1", "b2"}

VARIABLES
    \* ---- coordination store nodes read by the DHCP module
    dhcp_switch_dpid,   \* data of node DHCP_SWITCH_DPID
    dhcp_switch_port,   \* data of node DHCP_SWITCH_PORT
    mac_to_dpid_port,   \* children of MAC_TO_DPID_PORT: mac -> "dpid,port" or None
    \* ---- update_server calls in flight
    b_pc, b_arg, b_rd, b_res,
    first_bind,         \* history: arguments of the first call that wrote both nodes
    b_calls,            \* history: the (dpid, port) arguments of the calls made so far
    \* ---- the DHCP packet-in handler
    r_pc, r_ev, r_rd, r_out, r_res, r_lookups, r_bind,
    \* ---- coordination store tree written by the RPC handlers
    zk_data,            \* key -> None or Some(data)
    \* ---- RPC handlers in flight
    rpc_pc, rpc_call, rpc_txn, rpc_res,
    rpc_sb,             \* southbound calls issued by the current call
    rpc_commits,        \* history: commits that applied writes in the current call
    last_committed,     \* history: mac -> arguments of the last committed update_position
    dcenter_to_info,    \* the peer-datacenter table: dcenter -> controller and gateway ip
    \* ---- in-memory tables of the controller used by send_arp_update
    vmac_to_queries,    \* vmac -> set of querier macs (a dict: keys may be absent)
    mac_to_ip,          \* mac -> None or Some(ip)
    au_pc, au_call, au_iter, au_sent, au_res,
    au_snapshot,        \* history: the queriers recorded when the call started
    au_known,           \* history: whether the VM had an entry in mac_to_ip then
    au_after,           \* history: whether the entry of vmac_old was there at the end
    \* ---- inception_util: the call under examination and the conflict records
    u_pc, u_call, u_out,
    swc_conflict_record,    \* the switch ids marked True
    vm_conflict_record,     \* dpid -> the vm ids marked True
    \* ---- dispatcher.py: one EventQueue
    is_dispatching,
    ev_q,               \* the internal FIFO
    eq_pc,              \* where the outermost queue() call is
    eq_next,            \* the next event to be created
    eq_res,             \* how the last outermost queue() call ended
    eq_dispatched,      \* history: events handed to the dispatcher in this call
    eq_deferred,        \* history: events put into ev_q during this call
    \* ---- dispatcher.py: one EventDispatcher
    all_handlers,       \* list of handlers
    inheritable_events, \* dict: event class -> list of handlers (keys may be absent)
    events,             \* dict: event class -> list of handlers (keys may be absent)
    d_pc,               \* where the dispatch() call is
    d_ev,               \* the class of the event being dispatched
    d_kind,             \* which of the three _dispatch calls of dispatch() runs
    d_handlers,         \* _dispatch: the local variable handlers after the copy
    d_i,                \* _dispatch: position of the for loop
    d_handled,          \* dispatch: the local variable handled
    d_res,              \* how the last dispatch() call ended
    d_unhandled,        \* whether the call logged 'unhandled event'
    d_regs,             \* the number of register calls made so far
    d_log,              \* history: the handlers called for the event, with their returns
    d_seen              \* history: each list as it was when its _dispatch call started,
                        \* None before that call

dhcpVars == <<dhcp_switch_dpid, dhcp_switch_port, mac_to_dpid_port,
              b_pc, b_arg, b_rd, b_res, first_bind, b_calls,
              r_pc, r_ev, r_rd, r_out, r_res, r_lookups, r_bind>>

rpcVars == <<zk_data, rpc_pc, rpc_call, rpc_txn, rpc_res, rpc_sb, rpc_commits,
             last_committed>>

arpVars == <<vmac_to_queries, mac_to_ip, au_pc, au_call, au_iter, au_sent, au_res,
             au_snapshot, au_known, au_after>>

utilVars == <<u_pc, u_call, u_out, swc_conflict_record, vm_conflict_record>>

confVars == <<dcenter_to_info>>

evqVars == <<is_dispatching, ev_q, eq_pc, eq_next, eq_res, eq_dispatched, eq_deferred>>

dispVars == <<all_handlers, inheritable_events, events, d_pc, d_ev, d_kind, d_handlers,
              d_i, d_handled, d_res, d_unhandled, d_regs, d_log, d_seen>>

vars == <<dhcpVars, rpcVars, arpVars, utilVars, confVars, evqVars, dispVars>>

notDhcp == <<rpcVars, arpVars, utilVars, confVars, evqVars, dispVars>>

notRpc == <<dhcpVars, arpVars, utilVars, confVars, evqVars, dispVars>>

notArp == <<dhcpVars, rpcVars, utilVars, confVars, evqVars, dispVars>>

notUtil == <<dhcpVars, rpcVars, arpVars, confVars, evqVars, dispVars>>

notEvq == <<dhcpVars, rpcVars, arpVars, utilVars, confVars, dispVars>>

notDisp == <<dhcpVars, rpcVars, arpVars, utilVars, confVars, evqVars>>

(***************************************************************************)
(* inception_dhcp.py                                                       *)
(***************************************************************************)
NoArg == [dpid |-> <<>>, port |-> 0]

\* the directory entry written for a guest: tuple_to_str((dpid, str(port)))
PositionData(dpid, port) == Some(tuple_to_str(<<dpid, str(port)>>))

\* the directories the relay is run against: no guest known, one known, both known
Directories ==
    { [m \in Macs |-> None],
      [m \in Macs |-> IF m = "m1" THEN PositionData(<<"0", "a">>, MaxPort) ELSE None],
      [m \in Macs |-> IF m = "m1" THEN PositionData(<<"0", "1">>, 0)
                                   ELSE PositionData(<<"0", "a">>, MaxPort)] }

InitDhcp ==
    /\ dhcp_switch_dpid = <<>>
    /\ dhcp_switch_port = <<>>
    /\ mac_to_dpid_port \in Directories
    /\ b_pc = [p \in BindProcs |-> "idle"]
    /\ b_arg = [p \in BindProcs |-> NoArg]
    /\ b_rd = [p \in BindProcs |-> <<>>]
    /\ b_res = [p \in BindProcs |-> "none"]
    /\ first_bind = None
    /\ b_calls = {}
    /\ r_pc = "idle"
    /\ r_ev = None
    /\ r_rd = <<>>
    /\ r_out = <<>>
    /\ r_res = "none"
    /\ r_lookups = 0
    /\ r_bind = None

relayVars == <<r_pc, r_ev, r_rd, r_out, r_res, r_lookups, r_bind>>

bindVars == <<b_pc, b_arg, b_rd, b_res, first_bind, b_calls>>

\* update_server, line 35: read DHCP_SWITCH_DPID
BindStart(p, dpid, port) ==
    /\ b_pc[p] = "idle"
    /\ b_pc' = [b_pc EXCEPT ![p] = "l36"]
    /\ b_arg' = [b_arg EXCEPT ![p] = [dpid |-> dpid, port |-> port]]
    /\ b_rd' = [b_rd EXCEPT ![p] = dhcp_switch_dpid]
    /\ b_res' = [b_res EXCEPT ![p] = "none"]
    /\ b_calls' = b_calls \cup {[dpid |-> dpid, port |-> port]}
    /\ UNCHANGED <<dhcp_switch_dpid, dhcp_switch_port, mac_to_dpid_port, first_bind>>
    /\ UNCHANGED <<relayVars, notDhcp>>

\* the mutant: the warning is logged but the return is missing
BindCheckNoReturn(p) ==
    /\ b_pc[p] = "l36"
    /\ b_pc' = [b_pc EXCEPT ![p] = "l40"]
    /\ UNCHANGED <<b_arg, b_rd, b_res, b_calls>>
    /\ UNCHANGED <<dhcp_switch_dpid, dhcp_switch_port, mac_to_dpid_port, first_bind>>
    /\ UNCHANGED <<relayVars, notDhcp>>

\* update_server, lines 36-39: read DHCP_SWITCH_PORT, warn and return if both set
BindCheck(p) ==
    /\ b_pc[p] = "l36"
    /\ IF Truthy(dhcp_switch_port) /\ Truthy(b_rd[p])
       THEN /\ b_pc' = [b_pc EXCEPT ![p] = "idle"]
            /\ b_res' = [b_res EXCEPT ![p] = "ignored"]
            /\ b_arg' = [b_arg EXCEPT ![p] = NoArg]
            /\ b_rd' = [b_rd EXCEPT ![p] = <<>>]
       ELSE /\ b_pc' = [b_pc EXCEPT ![p] = "l40"]
            /\ UNCHANGED <<b_res, b_arg, b_rd>>
    /\ UNCHANGED <<dhcp_switch_dpid, dhcp_switch_port, mac_to_dpid_port, first_bind, b_calls>>
    /\ UNCHANGED <<relayVars, notDhcp>>

\* update_server, line 40: zk.set(DHCP_SWITCH_DPID, dpid)
BindSetDpid(p) ==
    /\ b_pc[p] = "l40"
    /\ dhcp_switch_dpid' = b_arg[p].dpid
    /\ b_pc' = [b_pc EXCEPT ![p] = "l41"]
    /\ UNCHANGED <<b_arg, b_rd, b_res, first_bind, b_calls>>
    /\ UNCHANGED <<dhcp_switch_port, mac_to_dpid_port>>
    /\ UNCHANGED <<relayVars, notDhcp>>

\* update_server, line 41: zk.set(DHCP_SWITCH_PORT, str(port))
BindSetPort(p) ==
    /\ b_pc[p] = "l41"
    /\ dhcp_switch_port' = str(b_arg[p].port)
    /\ b_pc' = [b_pc EXCEPT ![p] = "idle"]
    /\ b_res' = [b_res EXCEPT ![p] = "set"]
    /\ first_bind' = IF first_bind = None THEN Some(b_arg[p]) ELSE first_bind
    /\ b_arg' = [b_arg EXCEPT ![p] = NoArg]
    /\ b_rd' = [b_rd EXCEPT ![p] = <<>>]
    /\ UNCHANGED <<dhcp_switch_dpid, mac_to_dpid_port, b_calls>>
    /\ UNCHANGED <<relayVars, notDhcp>>

Events ==
    [ethertype : {ETH_TYPE_IP}, proto : {IPPROTO_UDP},
     src_port : {DHCP_CLIENT_PORT, DHCP_SERVER_PORT, OTHER_UDP_PORT},
     dst : Macs, data : Payloads]
    \cup [ethertype : {ETH_TYPE_ARP}, proto : {IPPROTO_UDP},
          src_port : {DHCP_CLIENT_PORT}, dst : {"m1"}, data : {"d1"}]
    \cup [ethertype : {ETH_TYPE_IP}, proto : {IPPROTO_TCP},
          src_port : {DHCP_SERVER_PORT}, dst : {"m1"}, data : {"d1"}]

\* OFPPacketOut(datapath, buffer_id=0xffffffff, in_port=OFPP_LOCAL, data, actions)
PacketOut(dpid, port, data) ==
    [dpid |-> dpid, in_port |-> "OFPP_LOCAL", out_port |-> port, data |-> data]

\* handle, lines 45-62: the header filters, then read DHCP_SWITCH_DPID
RelayRecv(ev) ==
    /\ r_pc = "idle"
    /\ r_ev' = Some(ev)
    /\ r_out' = <<>>
    /\ r_lookups' = 0
    /\ r_bind' = first_bind
    /\ IF \/ ev.ethertype # ETH_TYPE_IP
          \/ ev.proto # IPPROTO_UDP
          \/ ev.src_port \notin {DHCP_CLIENT_PORT, DHCP_SERVER_PORT}
       THEN /\ r_pc' = "idle"
            /\ r_res' = "filtered"
            /\ r_rd' = <<>>
       ELSE /\ r_pc' = "l63"
            /\ r_res' = "none"
            /\ r_rd' = dhcp_switch_dpid
    /\ UNCHANGED <<dhcp_switch_dpid, dhcp_switch_port, mac_to_dpid_port>>
    /\ UNCHANGED <<bindVars, notDhcp>>

\* handle, lines 72-85: forward to the server
ForwardToServer(dpid_s, port_s) ==
    IF ~IsNumeral(dpid_s, 16) \/ ~IsNumeral(port_s, 10)
    THEN /\ r_res' = "ValueError"
         /\ UNCHANGED <<r_out, r_lookups>>
    ELSE /\ r_out' = Append(r_out, PacketOut(str_to_dpid(dpid_s), int(port_s), Get(r_ev).data))
         /\ r_res' = "to_server"
         /\ UNCHANGED r_lookups

\* handle, lines 88-103: look the client up and forward to it
ForwardToClient ==
    /\ r_lookups' = r_lookups + 1
    /\ IF mac_to_dpid_port[Get(r_ev).dst] = None
       THEN \* zk.get of a node that does not exist raises NoNodeError
            /\ r_res' = "NoNodeError"
            /\ UNCHANGED r_out
       ELSE LET t == zk_data_to_tuple(Get(mac_to_dpid_port[Get(r_ev).dst]))
            IN  IF Len(t) # 2 \/ ~IsNumeral(t[1], 16) \/ ~IsNumeral(t[2], 10)
                THEN /\ r_res' = "ValueError"
                     /\ UNCHANGED r_out
                ELSE /\ r_out' = Append(r_out,
                             PacketOut(str_to_dpid(t[1]), int(t[2]), Get(r_ev).data))
                     /\ r_res' = "to_client"

\* the mutant: the unbound check of lines 66-68 is missing
RelayForwardNoCheck ==
    /\ r_pc = "l63"
    /\ r_pc' = "idle"
    /\ IF Get(r_ev).src_port = DHCP_CLIENT_PORT
       THEN ForwardToServer(r_rd, dhcp_switch_port)
       ELSE ForwardToClient
    /\ UNCHANGED <<r_ev, r_rd, r_bind>>
    /\ UNCHANGED <<dhcp_switch_dpid, dhcp_switch_port, mac_to_dpid_port>>
    /\ UNCHANGED <<bindVars, notDhcp>>

\* the mutant: a client packet goes to the switch found for its destination
RelayForwardByDst ==
    /\ r_pc = "l63"
    /\ r_pc' = "idle"
    /\ IF ~Truthy(r_rd) \/ ~Truthy(dhcp_switch_port)
       THEN /\ r_res' = "unbound"
            /\ UNCHANGED <<r_out, r_lookups>>
       ELSE ForwardToClient
    /\ UNCHANGED <<r_ev, r_rd, r_bind>>
    /\ UNCHANGED <<dhcp_switch_dpid, dhcp_switch_port, mac_to_dpid_port>>
    /\ UNCHANGED <<bindVars, notDhcp>>

\* handle, lines 63-103: read DHCP_SWITCH_PORT, drop if unbound, else forward
RelayForward ==
    /\ r_pc = "l63"
    /\ r_pc' = "idle"
    /\ IF ~Truthy(r_rd) \/ ~Truthy(dhcp_switch_port)
       THEN /\ r_res' = "unbound"
            /\ UNCHANGED <<r_out, r_lookups>>
       ELSE IF Get(r_ev).src_port = DHCP_CLIENT_PORT
            THEN ForwardToServer(r_rd, dhcp_switch_port)
            ELSE ForwardToClient
    /\ UNCHANGED <<r_ev, r_rd, r_bind>>
    /\ UNCHANGED <<dhcp_switch_dpid, dhcp_switch_port, mac_to_dpid_port>>
    /\ UNCHANGED <<bindVars, notDhcp>>

DhcpIdle == r_pc = "idle" /\ \A p \in BindProcs : b_pc[p] = "idle"

\* the packets relayed while update_server calls are in flight
RacingEvents ==
    {ev \in Events : ev.ethertype = ETH_TYPE_IP /\ ev.proto = IPPROTO_UDP
                      /\ ev.src_port # OTHER_UDP_PORT /\ ev.dst = "m1" /\ ev.data = "d1"}

\* handlers interleave at every store access
NextDhcp ==
    \/ \E p \in BindProcs, d \in DpidStrs, q \in Ports : BindStart(p, d, q)
    \/ \E p \in BindProcs : BindCheck(p)
    \/ \E p \in BindProcs : BindSetDpid(p)
    \/ \E p \in BindProcs : BindSetPort(p)
    \/ \E ev \in RacingEvents : RelayRecv(ev)
    \/ RelayForward

\* handlers run one after the other: a call starts only when none is in flight
NextDhcpSeq ==
    \/ \E p \in BindProcs, d \in DpidStrs, q \in Ports : DhcpIdle /\ BindStart(p, d, q)
    \/ \E p \in BindProcs : BindCheck(p)
    \/ \E p \in BindProcs : BindSetDpid(p)
    \/ \E p \in BindProcs : BindSetPort(p)
    \/ \E ev \in Events : DhcpIdle /\ RelayRecv(ev)
    \/ RelayForward


(***************************************************************************)
(* inception_rpc.py: the handlers a peer datacenter calls.  Each handler   *)
(* opens a transaction, lets the controller (inception.py, inception_arp)  *)
(* batch its writes into it, and commits.                                  *)
(***************************************************************************)
RpcProcs == {"h1", "h2"}

\* CONF.self_dcenter and the table parsed from CONF.peer_dcenters
LocalDcenter == <<"1">>

PeerDcenter == <<"2">>

PeerTable == (PeerDcenter :> [controller |-> "c2", gateway_ip |-> "g2"])

\* the switches of this datacenter; gateway is the one at the WAN edge
gateway == <<"0", "f">>

Switch1 == <<"0", "1">>

dpid_to_ip == (gateway :> "g1") @@ (Switch1 :> "h1")

\* dpid_to_conns[dpid][peer ip] is the port of dpid that reaches the peer
dpid_to_conns ==
    (Switch1 :> (("g1" :> <<"3">>) @@ ("g2" :> <<"4">>)))
    @@ (gateway :> (("h1" :> <<"7">>) @@ ("g2" :> <<"9">>)))

VmacA == <<"0", "1", ":", "0", "1">>

VmacB == <<"0", "2", ":", "0", "a">>

\* the (dcenter, dpid, port, vmac) tuples peers report for a guest
Positions ==
    { <<LocalDcenter, Switch1, str(0), VmacA>>,
      <<PeerDcenter, <<"0", "a">>, str(MaxPort), VmacB>> }

Ips == {"i1"}

PosKey(mac) == [tbl |-> "mac_to_position", k1 |-> mac, k2 |-> ""]

ArpKey(dcenter, ip) == [tbl |-> "ip_to_mac", k1 |-> ip, k2 |-> dcenter[1]]

FlowKey(mac1, mac2) == [tbl |-> "flows", k1 |-> mac1, k2 |-> mac2]

StoreKeys ==
    {PosKey(m) : m \in Macs}
    \cup {ArpKey(PeerDcenter, i) : i \in Ips}
    \cup {FlowKey("m1", "m2"), FlowKey("m2", "m1")}

NoCall == [op |-> "none", args |-> <<>>]

NoTxn == [status |-> "none", ops |-> <<>>, conflict |-> FALSE]

InitRpc ==
    /\ zk_data = [k \in StoreKeys |-> None]
    /\ rpc_pc = [p \in RpcProcs |-> "idle"]
    /\ rpc_call = [p \in RpcProcs |-> NoCall]
    /\ rpc_txn = [p \in RpcProcs |-> NoTxn]
    /\ rpc_res = [p \in RpcProcs |-> "none"]
    /\ rpc_sb = [p \in RpcProcs |-> <<>>]
    /\ rpc_commits = [p \in RpcProcs |-> 0]
    /\ last_committed = [m \in Macs |-> None]
    /\ dcenter_to_info = PeerTable

Write(key, data) == [key |-> key, data |-> data]

InstallRewriteFlow(dpid, match, rewrite, out_port) ==
    [call |-> "InstallRewriteFlow", dpid |-> dpid, match |-> match,
     rewrite |-> rewrite, out_port |-> out_port]

\* Inception.update_position: upsert the position of mac within txn
inception_update_position(mac, dcenter, dpid, port, vmac) ==
    [writes |-> <<Write(PosKey(mac), tuple_to_str(<<dcenter, dpid, port, vmac>>))>>,
     sb |-> <<>>]

\* InceptionArp.update_arp_mapping: upsert ip -> mac of dcenter within txn
inception_update_arp_mapping(ip, mac, dcenter) ==
    [writes |-> <<Write(ArpKey(dcenter, ip), mac)>>, sb |-> <<>>]

\* Inception.setup_inter_dcenter_flows: the rules of the pair, both directions
inception_setup_inter_dcenter_flows(local_mac, remote_mac) ==
    [writes |-> <<Write(FlowKey(local_mac, remote_mac), "gateway"),
                  Write(FlowKey(remote_mac, local_mac), "gateway")>>,
     sb |-> <<[call |-> "SetupFlows", local |-> local_mac, remote |-> remote_mac]>>]

\* Inception.set_local_flow: one rewrite flow on dpid, no directory write
inception_set_local_flow(dpid, vmac_old, vmac_new, fwd_port) ==
    [writes |-> <<>>, sb |-> <<InstallRewriteFlow(dpid, vmac_old, vmac_new, fwd_port)>>]

\* Directory.LookupPosition
LookupPosition(mac) ==
    IF zk_data[PosKey(mac)] = None THEN <<"NotFoundError">>
    ELSE str_to_tuple(Get(zk_data[PosKey(mac)]))

\* txn = self.zk.transaction(); self.inception.<op>(..., txn): up to the commit
RpcBegin(p, op, args, body) ==
    /\ rpc_pc[p] = "idle"
    /\ rpc_pc' = [rpc_pc EXCEPT ![p] = "commit"]
    /\ rpc_call' = [rpc_call EXCEPT ![p] = [op |-> op, args |-> args]]
    /\ rpc_txn' = [rpc_txn EXCEPT ![p] =
                      [status |-> "open", ops |-> body.writes, conflict |-> FALSE]]
    /\ rpc_res' = [rpc_res EXCEPT ![p] = "none"]
    /\ rpc_sb' = [rpc_sb EXCEPT ![p] = body.sb]
    /\ rpc_commits' = [rpc_commits EXCEPT ![p] = 0]
    /\ UNCHANGED <<zk_data, last_committed, notRpc>>

\* the handler returns (or raises res) with its transaction opened and not committed
RpcLeave(p, op, args, res) ==
    /\ rpc_pc[p] = "idle"
    /\ rpc_pc' = [rpc_pc EXCEPT ![p] = "idle"]
    /\ rpc_call' = [rpc_call EXCEPT ![p] = [op |-> op, args |-> args]]
    /\ rpc_txn' = [rpc_txn EXCEPT ![p] =
                      [status |-> "open", ops |-> <<>>, conflict |-> FALSE]]
    /\ rpc_res' = [rpc_res EXCEPT ![p] = res]
    /\ rpc_sb' = [rpc_sb EXCEPT ![p] = <<>>]
    /\ rpc_commits' = [rpc_commits EXCEPT ![p] = 0]
    /\ UNCHANGED <<zk_data, last_committed, notRpc>>

\* lines 33-36
setup_inter_dcenter_flows(p, local_mac, remote_mac) ==
    RpcBegin(p, "setup_inter_dcenter_flows", <<local_mac, remote_mac>>,
             inception_setup_inter_dcenter_flows(local_mac, remote_mac))

\* lines 39-42
update_arp_mapping(p, ip, mac, dcenter) ==
    RpcBegin(p, "update_arp_mapping", <<ip, mac, dcenter>>,
             inception_update_arp_mapping(ip, mac, dcenter))

\* the mutant: dpid and port are handed over in the wrong order
update_position_swapped(p, mac, dcenter, dpid, port, vmac) ==
    RpcBegin(p, "update_position", <<mac, dcenter, dpid, port, vmac>>,
             inception_update_position(mac, dcenter, port, dpid, vmac))

\* lines 51-53
update_position(p, mac, dcenter, dpid, port, vmac) ==
    RpcBegin(p, "update_position", <<mac, dcenter, dpid, port, vmac>>,
             inception_update_position(mac, dcenter, dpid, port, vmac))

\* dpid_to_conns[dpid][ip] raises KeyError when dpid has no port towards ip
HasConn(dpid, ip) == dpid \in DOMAIN dpid_to_conns /\ ip \in DOMAIN dpid_to_conns[dpid]

\* the mutant: the check for the local datacenter is missing
redirect_local_flow_unguarded(p, dpid_old, vmac_old, vmac_new, dcenter_new) ==
    IF ~HasConn(dpid_old, dpid_to_ip[gateway])
    THEN RpcLeave(p, "redirect_local_flow",
                  <<dpid_old, vmac_old, vmac_new, dcenter_new>>, "KeyError")
    ELSE RpcBegin(p, "redirect_local_flow",
                  <<dpid_old, vmac_old, vmac_new, dcenter_new>>,
                  inception_set_local_flow(dpid_old, vmac_old, vmac_new,
                      dpid_to_conns[dpid_old][dpid_to_ip[gateway]]))

\* the mutant: the port towards the peer's gateway instead of the local one
redirect_local_flow_via_peer(p, dpid_old, vmac_old, vmac_new, dcenter_new) ==
    IF dcenter_new = LocalDcenter
    THEN RpcLeave(p, "redirect_local_flow",
                  <<dpid_old, vmac_old, vmac_new, dcenter_new>>, "ok")
    ELSE IF ~HasConn(dpid_old, dcenter_to_info[dcenter_new].gateway_ip)
    THEN RpcLeave(p, "redirect_local_flow",
                  <<dpid_old, vmac_old, vmac_new, dcenter_new>>, "KeyError")
    ELSE RpcBegin(p, "redirect_local_flow",
                  <<dpid_old, vmac_old, vmac_new, dcenter_new>>,
                  inception_set_local_flow(dpid_old, vmac_old, vmac_new,
                      dpid_to_conns[dpid_old][dcenter_to_info[dcenter_new].gateway_ip]))

\* lines 56-70
redirect_local_flow(p, dpid_old, vmac_old, vmac_new, dcenter_new) ==
    IF dcenter_new = LocalDcenter
    THEN RpcLeave(p, "redirect_local_flow",
                  <<dpid_old, vmac_old, vmac_new, dcenter_new>>, "ok")
    ELSE IF ~HasConn(dpid_old, dpid_to_ip[gateway])
    THEN RpcLeave(p, "redirect_local_flow",
                  <<dpid_old, vmac_old, vmac_new, dcenter_new>>, "KeyError")
    ELSE RpcBegin(p, "redirect_local_flow",
                  <<dpid_old, vmac_old, vmac_new, dcenter_new>>,
                  inception_set_local_flow(dpid_old, vmac_old, vmac_new,
                      dpid_to_conns[dpid_old][dpid_to_ip[gateway]]))

\* the mutant: the flow goes to the switch next to the gateway
set_gateway_flow_on_switch(p, vmac_old, vmac_new, dcenter_new) ==
    IF dcenter_new \notin DOMAIN dcenter_to_info
    THEN RpcLeave(p, "set_gateway_flow", <<vmac_old, vmac_new, dcenter_new>>, "KeyError")
    ELSE RpcBegin(p, "set_gateway_flow", <<vmac_old, vmac_new, dcenter_new>>,
                  inception_set_local_flow(Switch1, vmac_old, vmac_new,
                      dpid_to_conns[Switch1][dcenter_to_info[dcenter_new].gateway_ip]))

\* lines 73-81; dcenter_to_info holds the peers only
set_gateway_flow(p, vmac_old, vmac_new, dcenter_new) ==
    IF dcenter_new \notin DOMAIN dcenter_to_info
    THEN RpcLeave(p, "set_gateway_flow", <<vmac_old, vmac_new, dcenter_new>>, "KeyError")
    ELSE RpcBegin(p, "set_gateway_flow", <<vmac_old, vmac_new, dcenter_new>>,
                  inception_set_local_flow(gateway, vmac_old, vmac_new,
                      dpid_to_conns[gateway][dcenter_to_info[dcenter_new].gateway_ip]))

OpKeys(ops) == {ops[i].key : i \in 1..Len(ops)}

\* the store after the writes ops, applied in order
ApplyOps(store, ops) ==
    [k \in DOMAIN store |->
        IF k \in OpKeys(ops)
        THEN LET last == CHOOSE i \in 1..Len(ops) :
                            /\ ops[i].key = k
                            /\ \A j \in (i + 1)..Len(ops) : ops[j].key # k
             IN  Some(ops[last].data)
        ELSE store[k]]

\* a commit that applies ops: every other open transaction on one of its keys conflicts
TxnApplied(p, ops, status) ==
    [q \in RpcProcs |->
        IF q = p THEN [rpc_txn[q] EXCEPT !.status = status]
        ELSE IF /\ rpc_txn[q].status = "open"
                /\ rpc_pc[q] = "commit"
                /\ OpKeys(rpc_txn[q].ops) \cap OpKeys(ops) # {}
             THEN [rpc_txn[q] EXCEPT !.conflict = TRUE]
             ELSE rpc_txn[q]]

CommittedPosition(p) ==
    IF rpc_call[p].op = "update_position"
    THEN [last_committed EXCEPT ![rpc_call[p].args[1]] = Some(Tail(rpc_call[p].args))]
    ELSE last_committed

\* the mutant: one transaction per write instead of one per call
RpcCommitPerWrite(p) ==
    /\ rpc_pc[p] = "commit"
    /\ IF Len(rpc_txn[p].ops) <= 1
       THEN /\ zk_data' = ApplyOps(zk_data, rpc_txn[p].ops)
            /\ rpc_txn' = TxnApplied(p, rpc_txn[p].ops, "committed")
            /\ rpc_pc' = [rpc_pc EXCEPT ![p] = "idle"]
            /\ rpc_res' = [rpc_res EXCEPT ![p] = "ok"]
            /\ last_committed' = CommittedPosition(p)
       ELSE /\ zk_data' = ApplyOps(zk_data, <<Head(rpc_txn[p].ops)>>)
            /\ rpc_txn' = [rpc_txn EXCEPT ![p].ops = Tail(@)]
            /\ UNCHANGED <<rpc_pc, rpc_res, last_committed>>
    /\ rpc_commits' = [rpc_commits EXCEPT ![p] = @ + 1]
    /\ UNCHANGED <<rpc_call, rpc_sb, notRpc>>

\* the mutant: a failed commit is caught and the handler returns normally
RpcCommitSwallow(p) ==
    /\ rpc_pc[p] = "commit"
    /\ rpc_pc' = [rpc_pc EXCEPT ![p] = "idle"]
    /\ \/ /\ ~rpc_txn[p].conflict
          /\ zk_data' = ApplyOps(zk_data, rpc_txn[p].ops)
          /\ rpc_txn' = TxnApplied(p, rpc_txn[p].ops, "committed")
          /\ rpc_commits' = [rpc_commits EXCEPT ![p] = @ + 1]
          /\ last_committed' = CommittedPosition(p)
       \/ /\ rpc_txn' = [rpc_txn EXCEPT ![p].status = "failed"]
          /\ UNCHANGED <<zk_data, rpc_commits, last_committed>>
    /\ rpc_res' = [rpc_res EXCEPT ![p] = "ok"]
    /\ UNCHANGED <<rpc_call, rpc_sb, notRpc>>

\* the mutant: a failed commit takes the flows of the call back
RpcCommitRollback(p) ==
    /\ rpc_pc[p] = "commit"
    /\ rpc_pc' = [rpc_pc EXCEPT ![p] = "idle"]
    /\ \/ /\ ~rpc_txn[p].conflict
          /\ zk_data' = ApplyOps(zk_data, rpc_txn[p].ops)
          /\ rpc_txn' = TxnApplied(p, rpc_txn[p].ops, "committed")
          /\ rpc_res' = [rpc_res EXCEPT ![p] = "ok"]
          /\ rpc_commits' = [rpc_commits EXCEPT ![p] = @ + 1]
          /\ last_committed' = CommittedPosition(p)
          /\ UNCHANGED rpc_sb
       \/ /\ rpc_txn' = [rpc_txn EXCEPT ![p].status = "failed"]
          /\ rpc_res' = [rpc_res EXCEPT ![p] =
                            IF rpc_txn[p].conflict THEN "TransactionConflictError"
                            ELSE "ConnectivityError"]
          /\ rpc_sb' = [rpc_sb EXCEPT ![p] = <<>>]
          /\ UNCHANGED <<zk_data, rpc_commits, last_committed>>
    /\ UNCHANGED <<rpc_call, notRpc>>

\* txn.commit() (lines 37, 43, 54, 71, 82): all writes are applied, or the commit
\* fails (a conflicting concurrent commit, or the store unreachable), nothing is
\* applied and the error goes to the caller of the handler
RpcCommit(p) ==
    /\ rpc_pc[p] = "commit"
    /\ rpc_pc' = [rpc_pc EXCEPT ![p] = "idle"]
    /\ \/ /\ ~rpc_txn[p].conflict
          /\ zk_data' = ApplyOps(zk_data, rpc_txn[p].ops)
          /\ rpc_txn' = TxnApplied(p, rpc_txn[p].ops, "committed")
          /\ rpc_res' = [rpc_res EXCEPT ![p] = "ok"]
          /\ rpc_commits' = [rpc_commits EXCEPT ![p] = @ + 1]
          /\ last_committed' = CommittedPosition(p)
       \/ /\ rpc_txn' = [rpc_txn EXCEPT ![p].status = "failed"]
          /\ rpc_res' = [rpc_res EXCEPT ![p] =
                            IF rpc_txn[p].conflict THEN "TransactionConflictError"
                            ELSE "ConnectivityError"]
          /\ UNCHANGED <<zk_data, rpc_commits, last_committed>>
    /\ UNCHANGED <<rpc_call, rpc_sb, notRpc>>

NextRpc ==
    \/ \E p \in RpcProcs : setup_inter_dcenter_flows(p, "m1", "m2")
    \/ \E p \in RpcProcs, i \in Ips : update_arp_mapping(p, i, "m1", PeerDcenter)
    \/ \E p \in RpcProcs, m \in Macs, t \in Positions :
          update_position(p, m, t[1], t[2], t[3], t[4])
    \/ \E p \in RpcProcs, d \in {LocalDcenter, PeerDcenter},
          a \in {<<Switch1, VmacA, VmacB>>, <<gateway, VmacB, VmacA>>} :
          redirect_local_flow(p, a[1], a[2], a[3], d)
    \/ \E p \in RpcProcs, d \in {LocalDcenter, PeerDcenter} :
          set_gateway_flow(p, VmacA, VmacB, d)
    \/ \E p \in RpcProcs : RpcCommit(p)

(***************************************************************************)
(* inception_rpc.py, send_arp_update: gratuitous ARP replies to the guests *)
(* that asked for a VM under its old vmac.                                 *)
(***************************************************************************)
\* guests: m1 and m2 ask, m3 is the VM that moves
Guests == Macs \cup {"m3"}

IpOf == [m \in Guests |-> IF m = "m1" THEN "i1" ELSE IF m = "m2" THEN "i2" ELSE "i3"]

Vmacs == {VmacA, VmacB}

InitArp ==
    /\ vmac_to_queries = [v \in Vmacs |-> None]
    /\ mac_to_ip = [m \in Guests |-> None]
    /\ au_pc = "idle"
    /\ au_call = <<>>
    /\ au_iter = {}
    /\ au_sent = <<>>
    /\ au_res = "none"
    /\ au_snapshot = {}
    /\ au_known = FALSE
    /\ au_after = "none"

auVars == <<au_pc, au_call, au_iter, au_sent, au_res, au_snapshot, au_known, au_after>>

EntryState(v) == IF vmac_to_queries[v] = None THEN "absent" ELSE "present"

\* InceptionArp.update_arp_mapping: the controller learns the ip of a guest
ArpLearn(mac) ==
    /\ mac_to_ip[mac] = None
    /\ mac_to_ip' = [mac_to_ip EXCEPT ![mac] = Some(IpOf[mac])]
    /\ UNCHANGED <<vmac_to_queries, auVars, notArp>>

\* ARP request of src_mac for the VM at vmac: the source is learnt and recorded
ArpQuery(src_mac, vmac) ==
    /\ src_mac \notin (IF vmac_to_queries[vmac] = None THEN {}
                       ELSE Get(vmac_to_queries[vmac]))
    /\ mac_to_ip' = [mac_to_ip EXCEPT ![src_mac] = Some(IpOf[src_mac])]
    /\ vmac_to_queries' = [vmac_to_queries EXCEPT ![vmac] =
            Some((IF @ = None THEN {} ELSE Get(@)) \cup {src_mac})]
    /\ UNCHANGED <<auVars, notArp>>

\* InceptionArp.send_arp_reply: one directed ARP reply
ArpReply(src_ip, src_mac, dst_ip, dst_mac) ==
    [src_ip |-> src_ip, src_mac |-> src_mac, dst_ip |-> dst_ip, dst_mac |-> dst_mac]

\* send_arp_update, line 87: self.vmac_to_queries[vmac_old] is evaluated for the loop.
\* A missing key raises KeyError in a dict and is created empty in a defaultdict.
ArpUpdateStart(mac, vmac_old, vmac_new) ==
    /\ au_pc = "idle"
    /\ au_call' = <<mac, vmac_old, vmac_new>>
    /\ au_sent' = <<>>
    /\ au_known' = (mac_to_ip[mac] # None)
    /\ IF vmac_to_queries[vmac_old] = None
       THEN /\ au_snapshot' = {}
            /\ au_iter' = {}
            /\ \/ /\ au_pc' = "idle"
                  /\ au_res' = "KeyError"
                  /\ au_after' = "absent"
                  /\ UNCHANGED vmac_to_queries
               \/ /\ au_pc' = "loop"
                  /\ au_res' = "none"
                  /\ au_after' = "none"
                  /\ vmac_to_queries' = [vmac_to_queries EXCEPT ![vmac_old] = Some({})]
       ELSE /\ au_snapshot' = Get(vmac_to_queries[vmac_old])
            /\ au_iter' = Get(vmac_to_queries[vmac_old])
            /\ au_pc' = "loop"
            /\ au_res' = "none"
            /\ au_after' = "none"
            /\ UNCHANGED vmac_to_queries
    /\ UNCHANGED <<mac_to_ip, notArp>>

\* the set under iteration has another size than when the loop started: the next
\* step of the iterator raises RuntimeError
SetChanged == Get(vmac_to_queries[au_call[2]]) # au_snapshot

\* the mutant: the reply is addressed to the moved VM instead of the querier
ArpUpdateSendToVm ==
    /\ au_pc = "loop"
    /\ \E mac_query \in au_iter :
          IF SetChanged
          THEN /\ au_pc' = "idle"
               /\ au_res' = "RuntimeError"
               /\ au_after' = EntryState(au_call[2])
               /\ UNCHANGED <<au_iter, au_sent>>
          ELSE IF mac_to_ip[mac_query] = None \/ mac_to_ip[au_call[1]] = None
          THEN /\ au_pc' = "idle"
               /\ au_res' = "KeyError"
               /\ au_after' = EntryState(au_call[2])
               /\ UNCHANGED <<au_iter, au_sent>>
          ELSE /\ au_sent' = Append(au_sent,
                      ArpReply(Get(mac_to_ip[mac_query]), au_call[3],
                               Get(mac_to_ip[au_call[1]]), au_call[1]))
               /\ au_iter' = au_iter \ {mac_query}
               /\ UNCHANGED <<au_pc, au_res, au_after>>
    /\ UNCHANGED <<au_call, au_snapshot, au_known, vmac_to_queries, mac_to_ip, notArp>>

\* send_arp_update, lines 87-90: one turn of the loop; a guest without an entry in
\* mac_to_ip raises KeyError
ArpUpdateSend ==
    /\ au_pc = "loop"
    /\ \E mac_query \in au_iter :
          IF SetChanged
          THEN /\ au_pc' = "idle"
               /\ au_res' = "RuntimeError"
               /\ au_after' = EntryState(au_call[2])
               /\ UNCHANGED <<au_iter, au_sent>>
          ELSE IF mac_to_ip[mac_query] = None \/ mac_to_ip[au_call[1]] = None
          THEN /\ au_pc' = "idle"
               /\ au_res' = "KeyError"
               /\ au_after' = EntryState(au_call[2])
               /\ UNCHANGED <<au_iter, au_sent>>
          ELSE /\ au_sent' = Append(au_sent,
                      ArpReply(Get(mac_to_ip[au_call[1]]), au_call[3],
                               Get(mac_to_ip[mac_query]), mac_query))
               /\ au_iter' = au_iter \ {mac_query}
               /\ UNCHANGED <<au_pc, au_res, au_after>>
    /\ UNCHANGED <<au_call, au_snapshot, au_known, vmac_to_queries, mac_to_ip, notArp>>

\* send_arp_update, lines 87 and 91: the loop ends (or the iterator finds the set
\* changed), then del self.vmac_to_queries[vmac_old]
ArpUpdateDel ==
    /\ au_pc = "loop"
    /\ au_iter = {}
    /\ IF SetChanged
       THEN /\ au_res' = "RuntimeError"
            /\ au_after' = EntryState(au_call[2])
            /\ UNCHANGED vmac_to_queries
       ELSE /\ vmac_to_queries' = [vmac_to_queries EXCEPT ![au_call[2]] = None]
            /\ au_res' = "ok"
            /\ au_after' = "absent"
    /\ au_pc' = "idle"
    /\ UNCHANGED <<au_call, au_iter, au_sent, au_snapshot, au_known, mac_to_ip, notArp>>

\* send_arp_update runs on its own: no other handler between its steps
NextArpSeq ==
    \/ \E m \in Guests : au_pc = "idle" /\ ArpLearn(m)
    \/ \E m \in Macs, v \in Vmacs : au_pc = "idle" /\ ArpQuery(m, v)
    \/ \E m \in Guests, vo \in Vmacs, vn \in Vmacs : vo # vn /\ ArpUpdateStart(m, vo, vn)
    \/ ArpUpdateSend
    \/ ArpUpdateDel

(***************************************************************************)
(* inception_util.py: virtual MAC addresses and hash-based ids.            *)
(***************************************************************************)
\* the largest datacenter id create_dc_vmac accepts (line 81)
DC_MAXID == 65535

\* i_conf.VM_MAXID and i_conf.SWITCH_MAXID: the ids fill one and two bytes
VM_MAXID == 255

SWITCH_MAXID == 65535

\* the inputs tried: datacenter ids and vm ids from -MaxNegative upwards
MaxNegative == 2

MaxDcenter == 65537

MaxVmId == 270

RECURSIVE hex(_)
hex(n) ==
    IF n < 16 THEN <<HexDigits[n + 1]>>
    ELSE hex(n \div 16) \o <<HexDigits[(n % 16) + 1]>>

\* "%02x" % n, for n >= 0
Fmt02x(n) == IF n < 16 THEN <<"0">> \o hex(n) ELSE hex(n)

\* s[:n]
Slice(s, n) == SubSeq(s, 1, IF Len(s) < n THEN Len(s) ELSE n)

\* lines 121-123
get_swc_prefix(vmac) == Slice(vmac, 11)

\* lines 126-128
get_dc_prefix(vmac) == Slice(vmac, 5)

\* the mutant: the two bytes of the datacenter id change places
create_dc_vmac_swapped(dcenter) ==
    IF dcenter > DC_MAXID THEN None
    ELSE Some(join(<<Fmt02x(dcenter % 256), Fmt02x((dcenter \div 256) % 256),
                     <<"0", "0">>, <<"0", "0">>, <<"0", "0">>, <<"0", "0">> >>, ":"))

\* lines 75-87; >> 8 and & 0xff on Python integers are floor division and modulus,
\* for negative numbers too
create_dc_vmac(dcenter) ==
    IF dcenter > DC_MAXID THEN None
    ELSE LET dcenter_high == (dcenter \div 256) % 256
             dcenter_low == dcenter % 256
         IN  Some(join(<<Fmt02x(dcenter_high), Fmt02x(dcenter_low),
                         <<"0", "0">>, <<"0", "0">>, <<"0", "0">>, <<"0", "0">> >>, ":"))

\* lines 98 and 106-109: the address of switch number switch_num
swc_vmac(dcenter_vmac, switch_num) ==
    LET dcenter_prefix == get_dc_prefix(dcenter_vmac)
        switch_high == (switch_num \div 256) % 256
        switch_low == switch_num % 256
        switch_suffix == join(<<Fmt02x(switch_high), Fmt02x(switch_low),
                                <<"0", "0">>, <<"0", "0">> >>, ":")
    IN  join(<<dcenter_prefix, switch_suffix>>, ":")

\* the mutant: the id is not cut to its low byte
create_vm_vmac_unmasked(switch_vmac, vm_id) ==
    join(<<get_swc_prefix(switch_vmac), Fmt02x(IF vm_id < 0 THEN vm_id % 256 ELSE vm_id),
           <<"0", "0">> >>, ":")

\* lines 112-118
create_vm_vmac(switch_vmac, vm_id) ==
    LET switch_prefix == get_swc_prefix(switch_vmac)
        id_hex == vm_id % 256
        id_suffix == Fmt02x(id_hex)
    IN  join(<<switch_prefix, id_suffix, <<"0", "0">> >>, ":")

\* hash() of the identities: any integer, negative ones and collisions included
DpidIdentities == {Switch1, gateway, <<"0", "a">>}

HashOfDpid ==
    (Switch1 :> 7) @@ (gateway :> (7 + SWITCH_MAXID)) @@ (<<"0", "a">> :> (0 - 1))

HashOfMac == [m \in Guests |->
                 IF m = "m1" THEN 9 ELSE IF m = "m2" THEN 9 + (2 * VM_MAXID)
                 ELSE 0 - VM_MAXID]

DcenterVmacs == {Get(create_dc_vmac(d)) : d \in {1, 513}}

SwitchVmacs == {swc_vmac(v, n) : v \in DcenterVmacs, n \in {1, SWITCH_MAXID}}

NoUtilCall == [op |-> "none", args |-> <<>>]

\* the calls of the two functions without state
PureCalls ==
    {[op |-> "create_dc_vmac", args |-> <<d>>] : d \in (0 - MaxNegative)..MaxDcenter}
    \cup {[op |-> "create_vm_vmac", args |-> <<v, i>>] :
             v \in SwitchVmacs, i \in (0 - MaxNegative)..MaxVmId}

InitUtil ==
    /\ u_pc = "off"
    /\ u_call = NoUtilCall
    /\ u_out = None
    /\ swc_conflict_record = {}
    /\ vm_conflict_record = [d \in DpidIdentities |-> {}]

CreateDcVmac ==
    /\ u_pc = "in"
    /\ u_call.op = "create_dc_vmac"
    /\ u_out' = create_dc_vmac(u_call.args[1])
    /\ u_pc' = "out"
    /\ UNCHANGED <<u_call, swc_conflict_record, vm_conflict_record, notUtil>>

CreateVmVmac ==
    /\ u_pc = "in"
    /\ u_call.op = "create_vm_vmac"
    /\ u_out' = Some(create_vm_vmac(u_call.args[1], u_call.args[2]))
    /\ u_pc' = "out"
    /\ UNCHANGED <<u_call, swc_conflict_record, vm_conflict_record, notUtil>>

\* the mutant: a switch number already marked is replaced by the next one
CreateSwcVmacProbing(dcenter_vmac, dpid) ==
    /\ u_pc = "ids"
    /\ LET switch_num == (HashOfDpid[dpid] % SWITCH_MAXID) + 1
           chosen == IF switch_num \in swc_conflict_record
                     THEN (switch_num % SWITCH_MAXID) + 1 ELSE switch_num
       IN  /\ swc_conflict_record' = swc_conflict_record \cup {chosen}
           /\ u_out' = Some(swc_vmac(dcenter_vmac, chosen))
    /\ u_call' = [op |-> "create_swc_vmac", args |-> <<dcenter_vmac, dpid>>]
    /\ UNCHANGED <<u_pc, vm_conflict_record, notUtil>>

\* lines 90-109
CreateSwcVmac(dcenter_vmac, dpid) ==
    /\ u_pc = "ids"
    /\ LET switch_num == (HashOfDpid[dpid] % SWITCH_MAXID) + 1
       IN  /\ swc_conflict_record' =
                  IF switch_num \in swc_conflict_record THEN swc_conflict_record
                  ELSE swc_conflict_record \cup {switch_num}
           /\ u_out' = Some(swc_vmac(dcenter_vmac, switch_num))
    /\ u_call' = [op |-> "create_swc_vmac", args |-> <<dcenter_vmac, dpid>>]
    /\ UNCHANGED <<u_pc, vm_conflict_record, notUtil>>

\* lines 61-71
GenerateVmId(vm_mac, dpid) ==
    /\ u_pc = "ids"
    /\ LET vm_id == (HashOfMac[vm_mac] % VM_MAXID) + 1
       IN  /\ vm_conflict_record' =
                  IF vm_id \in vm_conflict_record[dpid] THEN vm_conflict_record
                  ELSE [vm_conflict_record EXCEPT ![dpid] = @ \cup {vm_id}]
           /\ u_out' = Some(vm_id)
    /\ u_call' = [op |-> "generate_vm_id", args |-> <<vm_mac, dpid>>]
    /\ UNCHANGED <<u_pc, swc_conflict_record, notUtil>>

NextUtil ==
    \/ CreateDcVmac
    \/ CreateVmVmac
    \/ \E v \in DcenterVmacs, d \in DpidIdentities : CreateSwcVmac(v, d)
    \/ \E m \in Guests, d \in DpidIdentities : GenerateVmId(m, d)

(***************************************************************************)
(* dispatcher.py, EventQueue: queue() dispatches an event and then the     *)
(* events queued meanwhile; a handler may queue events, return or raise.   *)
(***************************************************************************)
\* events are numbered as they are created
MaxEvents == 5

\* EventQueue.__init__, lines 61-62
InitEvq ==
    /\ is_dispatching = FALSE
    /\ ev_q = <<>>
    /\ eq_pc = "idle"
    /\ eq_next = 1
    /\ eq_res = "none"
    /\ eq_dispatched = <<>>
    /\ eq_deferred = <<>>

\* queue(ev) called while no queue() call is running, lines 96-104
EvqQueue ==
    /\ eq_pc = "idle"
    /\ eq_next <= MaxEvents
    /\ eq_next' = eq_next + 1
    /\ eq_deferred' = <<>>
    /\ IF is_dispatching
       THEN /\ ev_q' = Append(ev_q, eq_next)
            /\ eq_res' = "queued"
            /\ eq_dispatched' = <<>>
            /\ UNCHANGED <<is_dispatching, eq_pc>>
       ELSE IF ev_q # <<>>
       THEN \* the assertion fails inside the guard, which resets the flag
            /\ eq_res' = "AssertionError"
            /\ eq_dispatched' = <<>>
            /\ is_dispatching' = FALSE
            /\ UNCHANGED <<ev_q, eq_pc>>
       ELSE /\ is_dispatching' = TRUE
            /\ eq_dispatched' = <<eq_next>>
            /\ eq_pc' = "handler"
            /\ eq_res' = "none"
            /\ UNCHANGED ev_q
    /\ UNCHANGED notEvq

\* the mutant: queue() dispatches at once although a dispatch is running
EvqDeferReentrant ==
    /\ eq_pc = "handler"
    /\ eq_next <= MaxEvents
    /\ eq_next' = eq_next + 1
    /\ eq_dispatched' = Append(eq_dispatched, eq_next)
    /\ eq_deferred' = Append(eq_deferred, eq_next)
    /\ UNCHANGED <<is_dispatching, ev_q, eq_pc, eq_res, notEvq>>

\* queue(ev) called by a handler (or while a handler waits), lines 97-99
EvqDefer ==
    /\ eq_pc = "handler"
    /\ eq_next <= MaxEvents
    /\ eq_next' = eq_next + 1
    /\ IF is_dispatching
       THEN /\ ev_q' = Append(ev_q, eq_next)
            /\ eq_deferred' = Append(eq_deferred, eq_next)
            /\ UNCHANGED eq_dispatched
       ELSE /\ eq_dispatched' = Append(eq_dispatched, eq_next)
            /\ UNCHANGED <<ev_q, eq_deferred>>
    /\ UNCHANGED <<is_dispatching, eq_pc, eq_res, notEvq>>

\* self.dispatcher(ev) returns, lines 104 and 107
EvqHandlerReturn ==
    /\ eq_pc = "handler"
    /\ eq_pc' = "loop"
    /\ UNCHANGED <<is_dispatching, ev_q, eq_next, eq_res, eq_dispatched, eq_deferred,
                   notEvq>>

\* a handler raises: __exit__ (lines 92-94) resets the flag and lets the
\* exception pass
EvqHandlerRaise ==
    /\ eq_pc = "handler"
    /\ is_dispatching' = FALSE
    /\ eq_pc' = "idle"
    /\ eq_res' = "Exception"
    /\ UNCHANGED <<ev_q, eq_next, eq_dispatched, eq_deferred, notEvq>>

\* lines 105-107: the next queued event is dispatched
EvqNext ==
    /\ eq_pc = "loop"
    /\ ev_q # <<>>
    /\ ev_q' = Tail(ev_q)
    /\ eq_dispatched' = Append(eq_dispatched, Head(ev_q))
    /\ eq_pc' = "handler"
    /\ UNCHANGED <<is_dispatching, eq_next, eq_res, eq_deferred, notEvq>>

\* line 105 with the FIFO empty, then __exit__
EvqReturn ==
    /\ eq_pc = "loop"
    /\ ev_q = <<>>
    /\ is_dispatching' = FALSE
    /\ eq_pc' = "idle"
    /\ eq_res' = "ok"
    /\ UNCHANGED <<ev_q, eq_next, eq_dispatched, eq_deferred, notEvq>>

NextEvq ==
    \/ EvqQueue
    \/ EvqDefer
    \/ EvqHandlerReturn
    \/ EvqHandlerRaise
    \/ EvqNext
    \/ EvqReturn

(***************************************************************************)
(* dispatcher.py, EventDispatcher: dispatch() hands an event to the        *)
(* all-handlers, to the inheritable handlers of its class and to the       *)
(* handlers of its class.  Handlers are registered and unregistered when   *)
(* no dispatch runs, by a running handler, or by another task while a      *)
(* handler blocks.                                                         *)
(***************************************************************************)
\* the number of register calls made in one run
MaxRegs == 3

Handlers == {"f", "g"}

EvClasses == {"EvA"}

\* what a handler returns: only False stops the loop (ret is False)
Rets == {"None", "False"}

\* __init__, lines 122-124
InitDisp ==
    /\ all_handlers = <<>>
    /\ inheritable_events = [c \in EvClasses |-> None]
    /\ events = [c \in EvClasses |-> None]
    /\ d_pc = "idle"
    /\ d_ev = None
    /\ d_kind = 1
    /\ d_handlers = <<>>
    /\ d_i = 0
    /\ d_handled = FALSE
    /\ d_res = "none"
    /\ d_unhandled = FALSE
    /\ d_regs = 0
    /\ d_log = <<>>
    /\ d_seen = [k \in 1..3 |-> None]

dispatchVars == <<d_pc, d_ev, d_kind, d_handlers, d_i, d_handled, d_res, d_unhandled,
                  d_log, d_seen>>

\* dict.get(ev_cls, [])
GetOrEmpty(dict, ev_cls) == IF dict[ev_cls] = None THEN <<>> ELSE Get(dict[ev_cls])

\* the list handed to the k-th _dispatch call of dispatch(), lines 214, 216, 219
ListOfKind(k, ev_cls) ==
    IF k = 1 THEN all_handlers
    ELSE IF k = 2 THEN GetOrEmpty(inheritable_events, ev_cls)
    ELSE GetOrEmpty(events, ev_cls)

InList(l, h) == \E i \in 1..Len(l) : l[i] = h

\* list.remove(h): the first occurrence goes
Remove(l, h) ==
    LET i == CHOOSE n \in 1..Len(l) : l[n] = h /\ \A j \in 1..(n - 1) : l[j] # h
    IN  SubSeq(l, 1, i - 1) \o SubSeq(l, i + 1, Len(l))

\* registrations happen between dispatch() calls or while a handler runs
MayRegister == d_pc \in {"idle", "handler"}

\* lines 145-147
register_all_handler(h) ==
    /\ MayRegister
    /\ d_regs < MaxRegs
    /\ all_handlers' = Append(all_handlers, h)
    /\ d_regs' = d_regs + 1
    /\ UNCHANGED <<inheritable_events, events, dispatchVars, notDisp>>

\* lines 151-154; removing a handler that is not there raises ValueError in the
\* caller and changes nothing
unregister_all_handler(h) ==
    /\ MayRegister
    /\ IF InList(all_handlers, h)
       THEN all_handlers' = Remove(all_handlers, h)
       ELSE UNCHANGED all_handlers
    /\ UNCHANGED <<inheritable_events, events, d_regs, dispatchVars, notDisp>>

\* lines 156-159
register_inheritable_handler(ev_cls, h) ==
    /\ MayRegister
    /\ d_regs < MaxRegs
    /\ inheritable_events' = [inheritable_events EXCEPT
            ![ev_cls] = Some(Append(GetOrEmpty(inheritable_events, ev_cls), h))]
    /\ d_regs' = d_regs + 1
    /\ UNCHANGED <<all_handlers, events, dispatchVars, notDisp>>

\* lines 161-162; a class without list raises KeyError, a handler that is not in
\* the list ValueError, in the caller, and nothing changes
unregister_inheritable_handler(ev_cls, h) ==
    /\ MayRegister
    /\ IF inheritable_events[ev_cls] = None
       THEN UNCHANGED inheritable_events
       ELSE IF ~InList(Get(inheritable_events[ev_cls]), h)
       THEN UNCHANGED inheritable_events
       ELSE inheritable_events' = [inheritable_events EXCEPT
                    ![ev_cls] = Some(Remove(Get(inheritable_events[ev_cls]), h))]
    /\ UNCHANGED <<all_handlers, events, d_regs, dispatchVars, notDisp>>

\* lines 164-169, of a dispatcher without children
register_handler(ev_cls, h) ==
    /\ MayRegister
    /\ d_regs < MaxRegs
    /\ events' = [events EXCEPT ![ev_cls] = Some(Append(GetOrEmpty(events, ev_cls), h))]
    /\ d_regs' = d_regs + 1
    /\ UNCHANGED <<all_handlers, inheritable_events, dispatchVars, notDisp>>

\* lines 175-178, of a dispatcher without children; KeyError and ValueError as above
unregister_handler(ev_cls, h) ==
    /\ MayRegister
    /\ IF events[ev_cls] = None
       THEN UNCHANGED events
       ELSE IF ~InList(Get(events[ev_cls]), h)
       THEN UNCHANGED events
       ELSE events' = [events EXCEPT ![ev_cls] = Some(Remove(Get(events[ev_cls]), h))]
    /\ UNCHANGED <<all_handlers, inheritable_events, d_regs, dispatchVars, notDisp>>

registryVars == <<all_handlers, inheritable_events, events, d_regs>>

\* dispatch, lines 210-214: handled = False, then the first _dispatch call
DispatchStart(ev_cls) ==
    /\ d_pc = "idle"
    /\ d_pc' = "list"
    /\ d_ev' = Some(ev_cls)
    /\ d_kind' = 1
    /\ d_handlers' = <<>>
    /\ d_i' = 0
    /\ d_handled' = FALSE
    /\ d_res' = "none"
    /\ d_unhandled' = FALSE
    /\ d_log' = <<>>
    /\ d_seen' = [k \in 1..3 |-> None]
    /\ UNCHANGED <<registryVars, notDisp>>

\* dispatch, lines 214-223: a _dispatch call returned ret; the return of the
\* all-handlers is dropped, the next list follows, and after the last list the
\* event is logged as unhandled if handled is still False
DispatchAfterList(ret) ==
    IF d_kind = 3
    THEN /\ d_pc' = "idle"
         /\ d_res' = "ok"
         /\ d_handled' = (d_handled \/ ret)
         /\ d_unhandled' = ~(d_handled \/ ret)
         /\ UNCHANGED d_kind
    ELSE /\ d_pc' = "list"
         /\ d_kind' = d_kind + 1
         /\ d_handled' = IF d_kind = 1 THEN d_handled ELSE (d_handled \/ ret)
         /\ UNCHANGED <<d_res, d_unhandled>>

\* _dispatch, lines 196-203: an empty list returns False, another one is copied
DispatchEnter ==
    /\ d_pc = "list"
    /\ LET l == ListOfKind(d_kind, Get(d_ev))
       IN  /\ d_seen' = [d_seen EXCEPT ![d_kind] = Some(l)]
           /\ IF Len(l) = 0
              THEN /\ DispatchAfterList(FALSE)
                   /\ UNCHANGED <<d_handlers, d_i>>
              ELSE /\ d_handlers' = l
                   /\ d_i' = 1
                   /\ d_pc' = "loop"
                   /\ UNCHANGED <<d_kind, d_handled, d_res, d_unhandled>>
    /\ UNCHANGED <<d_ev, d_log, registryVars, notDisp>>

\* the mutant: the loop runs over the list itself, not over a copy of it
LoopHandlersLive == ListOfKind(d_kind, Get(d_ev))

\* _dispatch, lines 203-204: the loop runs over the copy
LoopHandlers == d_handlers

\* _dispatch, line 205: the next handler is called
DispatchCall ==
    /\ d_pc = "loop"
    /\ d_pc' = "handler"
    /\ d_log' = Append(d_log, [kind |-> d_kind, h |-> LoopHandlers[d_i], ret |-> "running"])
    /\ UNCHANGED <<d_ev, d_kind, d_handlers, d_i, d_handled, d_res, d_unhandled, d_seen>>
    /\ UNCHANGED <<registryVars, notDisp>>

\* the mutant: False ends the dispatch of the event, not only of the list
DispatchHandlerReturnStopsAll(ret) ==
    /\ d_pc = "handler"
    /\ d_log' = [d_log EXCEPT ![Len(d_log)].ret = ret]
    /\ IF ret = "False"
       THEN /\ d_pc' = "idle"
            /\ d_res' = "ok"
            /\ d_handled' = (d_handled \/ d_kind > 1)
            /\ d_unhandled' = ~(d_handled \/ d_kind > 1)
            /\ UNCHANGED <<d_kind, d_handlers, d_i>>
       ELSE IF d_i >= Len(LoopHandlers)
       THEN /\ DispatchAfterList(TRUE)
            /\ UNCHANGED <<d_handlers, d_i>>
       ELSE /\ d_i' = d_i + 1
            /\ d_pc' = "loop"
            /\ UNCHANGED <<d_kind, d_handlers, d_handled, d_res, d_unhandled>>
    /\ UNCHANGED <<d_ev, d_seen, registryVars, notDisp>>

\* _dispatch, lines 205-208: the handler returned; False breaks the loop, the end
\* of the loop returns True
DispatchHandlerReturn(ret) ==
    /\ d_pc = "handler"
    /\ d_log' = [d_log EXCEPT ![Len(d_log)].ret = ret]
    /\ IF ret = "False" \/ d_i >= Len(LoopHandlers)
       THEN /\ DispatchAfterList(TRUE)
            /\ UNCHANGED <<d_handlers, d_i>>
       ELSE /\ d_i' = d_i + 1
            /\ d_pc' = "loop"
            /\ UNCHANGED <<d_kind, d_handlers, d_handled, d_res, d_unhandled>>
    /\ UNCHANGED <<d_ev, d_seen, registryVars, notDisp>>

\* line 205: the handler raised; nothing catches it in _dispatch or dispatch
DispatchHandlerRaise ==
    /\ d_pc = "handler"
    /\ d_pc' = "idle"
    /\ d_res' = "exception"
    /\ d_log' = [d_log EXCEPT ![Len(d_log)].ret = "raised"]
    /\ UNCHANGED <<d_ev, d_kind, d_handlers, d_i, d_handled, d_unhandled, d_seen>>
    /\ UNCHANGED <<registryVars, notDisp>>

NextDisp ==
    \/ \E h \in Handlers : register_all_handler(h)
    \/ \E h \in Handlers : unregister_all_handler(h)
    \/ \E c \in EvClasses, h \in Handlers : register_inheritable_handler(c, h)
    \/ \E c \in EvClasses, h \in Handlers : unregister_inheritable_handler(c, h)
    \/ \E c \in EvClasses, h \in Handlers : register_handler(c, h)
    \/ \E c \in EvClasses, h \in Handlers : unregister_handler(c, h)
    \/ \E c \in EvClasses : DispatchStart(c)
    \/ DispatchEnter
    \/ DispatchCall
    \/ \E r \in Rets : DispatchHandlerReturn(r)
    \/ DispatchHandlerRaise

\* send_arp_reply has handed a packet to the switch connection, where the sender
\* may block and other handlers run
AuYielded == au_pc = "loop" /\ au_sent # <<>>

\* ARP requests are handled while send_arp_update waits in a send
NextArp ==
    \/ \E m \in Guests : (au_pc = "idle" \/ AuYielded) /\ ArpLearn(m)
    \/ \E m \in Macs, v \in Vmacs : (au_pc = "idle" \/ AuYielded) /\ ArpQuery(m, v)
    \/ \E m \in Guests, vo \in Vmacs, vn \in Vmacs : vo # vn /\ ArpUpdateStart(m, vo, vn)
    \/ ArpUpdateSend
    \/ ArpUpdateDel

DhcpDirectoryEmpty == mac_to_dpid_port = [m \in Macs |-> None]

InitOfDhcp == InitDhcp /\ InitRpc /\ InitArp /\ InitUtil /\ InitEvq /\ InitDisp

InitOfRpc ==
    InitDhcp /\ DhcpDirectoryEmpty /\ InitRpc /\ InitArp /\ InitUtil /\ InitEvq /\ InitDisp

\* one call of a function without state, or a run of the id functions
InitOfUtil ==
    /\ InitDhcp /\ DhcpDirectoryEmpty /\ InitRpc /\ InitArp /\ InitEvq /\ InitDisp
    /\ u_out = None
    /\ swc_conflict_record = {}
    /\ vm_conflict_record = [d \in DpidIdentities |-> {}]
    /\ \/ u_pc = "in" /\ u_call \in PureCalls
       \/ u_pc = "ids" /\ u_call = NoUtilCall

SpecDhcp == InitOfDhcp /\ [][NextDhcp]_vars

SpecDhcpSeq == InitOfDhcp /\ [][NextDhcpSeq]_vars

SpecRpc == InitOfRpc /\ [][NextRpc]_vars

SpecArpSeq == InitOfRpc /\ [][NextArpSeq]_vars

SpecArp == InitOfRpc /\ [][NextArp]_vars

SpecUtil == InitOfUtil /\ [][NextUtil]_vars

SpecDisp == InitOfRpc /\ [][NextDisp]_vars

\* every handler ends, by returning or by raising, and the loop of queue() goes on
SpecEvq ==
    /\ InitOfRpc
    /\ [][NextEvq]_vars
    /\ WF_vars(EvqHandlerReturn \/ EvqHandlerRaise)
    /\ WF_vars(EvqNext)
    /\ WF_vars(EvqReturn)

(***************************************************************************)
(* The properties.                                                         *)
(***************************************************************************)
\* the datapath id a dpid string stands for
DatapathOf(d) == IF d = <<"0", "1">> THEN 1 ELSE IF d = <<"0", "a">> THEN 10 ELSE 15

IsDhcp(ev) ==
    /\ ev.ethertype = ETH_TYPE_IP
    /\ ev.proto = IPPROTO_UDP
    /\ ev.src_port \in {DHCP_CLIENT_PORT, DHCP_SERVER_PORT}

RelayDone == r_pc = "idle" /\ r_ev # None

\* C1: with update_server calls run one after the other, once a call has stored
\* (dpid, port) the two nodes keep that pair: no later call reaches a write, every
\* later call ends as "ignored" (a warning, no error), at most one call ever ends as
\* "set", and a client packet relayed later goes out on that pair.
C1_FirstBindWins ==
    first_bind # None =>
        /\ dhcp_switch_dpid = Get(first_bind).dpid
        /\ IsNumeral(dhcp_switch_port, 10)
        /\ int(dhcp_switch_port) = Get(first_bind).port
        /\ \A p \in BindProcs : b_pc[p] \in {"idle", "l36"}
        /\ Cardinality({p \in BindProcs : b_res[p] = "set"}) <= 1
        /\ (RelayDone /\ r_bind # None /\ r_res = "to_server") =>
               /\ r_out[1].dpid = DatapathOf(Get(first_bind).dpid)
               /\ r_out[1].out_port = Get(first_bind).port

C1_Witness ==
    /\ first_bind # None
    /\ \E p, q \in BindProcs : p # q /\ b_res[p] = "set" /\ b_res[q] = "ignored"
    /\ RelayDone /\ r_bind # None /\ r_res = "to_server"

\* C2: with update_server calls interleaved at their store accesses, once both
\* nodes hold a value neither node is written with another value again.
C2_BindIsCompareAndSet ==
    [][(Truthy(dhcp_switch_dpid) /\ Truthy(dhcp_switch_port)) =>
          (dhcp_switch_dpid' = dhcp_switch_dpid /\ dhcp_switch_port' = dhcp_switch_port)]_vars

\* C3: a packet handled while no update_server call has stored a binding is
\* dropped: no packet-out, the handler returns normally ("unbound", or "filtered"
\* for a non-DHCP packet), and the handler's steps leave the store as it was.
C3_UnboundRelayDrops ==
    /\ []((RelayDone /\ r_bind = None) =>
            /\ r_out = <<>>
            /\ r_res = (IF IsDhcp(Get(r_ev)) THEN "unbound" ELSE "filtered"))
    /\ [][(r_bind' = None /\ relayVars' # relayVars) =>
            UNCHANGED <<dhcp_switch_dpid, dhcp_switch_port, mac_to_dpid_port>>]_vars

C3_Witness ==
    /\ RelayDone /\ r_bind = None /\ r_res = "unbound"
    /\ Get(r_ev).src_port = DHCP_SERVER_PORT

\* C4: with the binding (S, P) stored, a packet from the DHCP client port gives
\* exactly one packet-out, on the datapath of S, out of port P, with the data of
\* the packet, whatever its destination, and no directory lookup.
C4_ClientPacketToServerPort ==
    (RelayDone /\ r_bind # None /\ IsDhcp(Get(r_ev))
       /\ Get(r_ev).src_port = DHCP_CLIENT_PORT) =>
        /\ r_out = <<PacketOut(DatapathOf(Get(r_bind).dpid), Get(r_bind).port,
                               Get(r_ev).data)>>
        /\ r_lookups = 0
        /\ r_res = "to_server"

C4_Witness ==
    /\ RelayDone /\ r_bind # None /\ Get(r_ev).src_port = DHCP_CLIENT_PORT
    /\ IsDhcp(Get(r_ev)) /\ Get(r_ev).dst = "m2" /\ Get(r_ev).data = "d2"
    /\ Get(r_bind).port = MaxPort /\ Len(r_out) = 1

\* C5: with a binding stored, a packet from the DHCP server port whose destination
\* has no directory entry is dropped without a packet-out and without an exception
\* leaving the handler; one with an entry gives one packet-out to the entry's
\* (dpid, port).
C5_ServerPacketToClient ==
    (RelayDone /\ r_bind # None /\ IsDhcp(Get(r_ev))
       /\ Get(r_ev).src_port = DHCP_SERVER_PORT) =>
        IF mac_to_dpid_port[Get(r_ev).dst] = None
        THEN r_out = <<>> /\ r_res \notin {"NoNodeError", "ValueError"}
        ELSE LET t == str_to_tuple(Get(mac_to_dpid_port[Get(r_ev).dst]))
             IN  r_out = <<PacketOut(DatapathOf(t[1]), int(t[2]), Get(r_ev).data)>>

\* C6: redirect_local_flow with dcenter_new equal to the local datacenter returns
\* at once: no southbound call, nothing batched, nothing committed.
C6_RedirectLocalIsNoOp ==
    \A p \in RpcProcs :
        (rpc_call[p].op = "redirect_local_flow" /\ rpc_call[p].args[4] = LocalDcenter) =>
            /\ rpc_pc[p] = "idle"
            /\ rpc_res[p] = "ok"
            /\ rpc_sb[p] = <<>>
            /\ rpc_txn[p].ops = <<>>
            /\ rpc_txn[p].status # "committed"
            /\ rpc_commits[p] = 0

C6_Witness ==
    \E p \in RpcProcs :
        /\ rpc_call[p].op = "redirect_local_flow"
        /\ rpc_call[p].args[4] = LocalDcenter
        /\ rpc_call[p].args[1] = gateway
        /\ rpc_call[p].args[2] = VmacB
        /\ rpc_res[p] = "ok"
        /\ \E k \in StoreKeys : zk_data[k] # None

\* a call of a handler that mutates the directory, other than a redirect to the
\* local datacenter
MutatingCall(call) ==
    /\ call.op \in {"setup_inter_dcenter_flows", "update_arp_mapping", "update_position",
                    "redirect_local_flow", "set_gateway_flow"}
    /\ ~(call.op = "redirect_local_flow" /\ call.args[4] = LocalDcenter)

\* C7: the store changes only in the commit step of one handler, which applies all
\* the writes batched by that call at once and is that call's only commit; a call
\* that has returned normally has committed exactly once.
C7_OneTransactionPerCall ==
    /\ [](\A p \in RpcProcs :
            /\ rpc_commits[p] <= 1
            /\ (rpc_txn[p].status = "committed") <=> (rpc_commits[p] = 1)
            /\ (rpc_pc[p] = "idle" /\ MutatingCall(rpc_call[p]) /\ rpc_res[p] = "ok")
                   => rpc_commits[p] = 1)
    /\ [][zk_data' # zk_data =>
            \E p \in RpcProcs :
                /\ rpc_pc[p] = "commit" /\ rpc_pc'[p] = "idle"
                /\ zk_data' = ApplyOps(zk_data, rpc_txn[p].ops)
                /\ rpc_commits'[p] = 1]_vars

C7_Witness ==
    \E p \in RpcProcs :
        /\ rpc_call[p].op = "setup_inter_dcenter_flows"
        /\ rpc_txn[p].status = "committed"
        /\ zk_data[FlowKey("m1", "m2")] # None
        /\ zk_data[FlowKey("m2", "m1")] # None

\* C8: LookupPosition(mac) is the tuple of the last committed update_position for
\* mac (not found if none committed), and a commit that fails leaves the store
\* as it was.
C8_LookupReturnsLastCommitted ==
    /\ [](\A m \in Macs :
            IF last_committed[m] = None THEN zk_data[PosKey(m)] = None
            ELSE /\ zk_data[PosKey(m)] # None
                 /\ LookupPosition(m) = Get(last_committed[m]))
    /\ [][\A p \in RpcProcs :
            (rpc_pc[p] = "commit" /\ rpc_txn'[p].status = "failed") =>
                zk_data' = zk_data]_vars

C8_Witness ==
    \E p \in RpcProcs :
        /\ rpc_pc[p] = "idle"
        /\ rpc_call[p].op = "update_position"
        /\ rpc_txn[p].status = "failed"
        /\ last_committed[rpc_call[p].args[1]] # None
        /\ Get(last_committed[rpc_call[p].args[1]]) # Tail(rpc_call[p].args)

ArpUpdateDone == au_pc = "idle" /\ au_call # <<>>

\* one reply per querier recorded at the start, none to anyone else, each from the
\* VM's ip and new vmac to the querier's ip and mac
OneReplyPerQuerier ==
    /\ Len(au_sent) = Cardinality(au_snapshot)
    /\ \A q \in au_snapshot :
          \E i \in 1..Len(au_sent) :
              au_sent[i] = ArpReply(IpOf[au_call[1]], au_call[3], IpOf[q], q)

\* C10: every send_arp_update call sends one reply to each querier recorded under
\* vmac_old when it started, none to anyone else, and ends with the entry of
\* vmac_old absent.
C10_OneReplyEachThenAbsent ==
    ArpUpdateDone => (OneReplyPerQuerier /\ au_after = "absent")

\* What the handler does in each case: the replies and the deletion happen when
\* the VM has an entry in mac_to_ip (or nobody is recorded); otherwise the call
\* ends in KeyError before any reply and the entry of vmac_old is still there.
SendArpUpdateByCase ==
    ArpUpdateDone =>
        IF au_known \/ au_snapshot = {}
        THEN OneReplyPerQuerier /\ au_after = "absent"
        ELSE au_res = "KeyError" /\ au_sent = <<>> /\ au_after = "present"

SendArpUpdateTwoQueriers ==
    /\ ArpUpdateDone /\ au_known /\ au_res = "ok"
    /\ Cardinality(au_snapshot) = 2 /\ Len(au_sent) = 2

\* C11: with ARP requests handled while send_arp_update waits in a send, a call
\* for a VM with a cached ip and recorded queriers does not fail, and a querier
\* leaves the table only after a reply was sent to it.
C11_ConsumedAtomically ==
    /\ []((ArpUpdateDone /\ au_known /\ au_snapshot # {}) => au_res = "ok")
    /\ [][\A v \in Vmacs :
            (vmac_to_queries[v] # None /\ vmac_to_queries'[v] = None) =>
                \A q \in Get(vmac_to_queries[v]) :
                    \E i \in 1..Len(au_sent) : au_sent[i].dst_mac = q]_vars

\* the number a two-digit hexadecimal byte at position i of address v stands for
ByteAt(v, i) == ParseNumeral(SubSeq(v, (3 * i) - 2, (3 * i) - 1), 16)

\* v is six two-digit lower-case hexadecimal bytes separated by colons
IsVmac(v) ==
    /\ Len(v) = 17
    /\ \A i \in 1..6 : IsNumeral(SubSeq(v, (3 * i) - 2, (3 * i) - 1), 16)
    /\ \A i \in 1..5 : v[3 * i] = ":"

\* C12: for d in 0..65535 create_dc_vmac(d) is an address whose bytes are the high
\* byte of d, the low byte of d and four zero bytes; get_dc_prefix of it is its
\* first two bytes; the two bytes give d back, so distinct ids have distinct
\* prefixes.
C12_DcVmacRoundTrip ==
    (u_pc = "out" /\ u_call.op = "create_dc_vmac"
       /\ u_call.args[1] \in 0..DC_MAXID) =>
        /\ u_out # None
        /\ LET v == Get(u_out)
               d == u_call.args[1]
           IN  /\ IsVmac(v)
               /\ ByteAt(v, 1) = d \div 256
               /\ ByteAt(v, 2) = d % 256
               /\ \A i \in 3..6 : ByteAt(v, i) = 0
               /\ get_dc_prefix(v) = SubSeq(v, 1, 5)
               /\ (256 * ByteAt(get_dc_prefix(v) \o <<":">>, 1))
                     + ParseNumeral(SubSeq(get_dc_prefix(v), 4, 5), 16) = d

C12_Witness ==
    /\ u_pc = "out" /\ u_call.op = "create_dc_vmac" /\ u_call.args[1] = 513
    /\ get_dc_prefix(Get(u_out)) = <<"0", "2", ":", "0", "1">>

\* C13: for every id outside 0..65535 create_dc_vmac fails with a
\* ConfigurationError: it returns neither an address nor an empty result.
C13_DcVmacRejectsWideIds ==
    (u_pc = "out" /\ u_call.op = "create_dc_vmac"
       /\ u_call.args[1] \notin 0..DC_MAXID) =>
        (u_out # None /\ ~IsVmac(Get(u_out)))

\* C14: create_vm_vmac(switch_vmac, vm_id) is an address with the first four bytes
\* of switch_vmac, then vm_id mod 256, then a zero byte, so it has the switch
\* prefix and the datacenter prefix of switch_vmac.
C14_VmVmacKeepsSwitchPrefix ==
    (u_pc = "out" /\ u_call.op = "create_vm_vmac") =>
        LET sv == u_call.args[1]
            id == u_call.args[2]
            v == Get(u_out)
        IN  /\ IsVmac(v)
            /\ \A i \in 1..4 : ByteAt(v, i) = ByteAt(sv, i)
            /\ ByteAt(v, 5) = id % 256
            /\ ByteAt(v, 6) = 0
            /\ get_swc_prefix(v) = get_swc_prefix(sv)
            /\ get_dc_prefix(v) = get_dc_prefix(sv)

C14_Witness ==
    /\ u_pc = "out" /\ u_call.op = "create_vm_vmac" /\ u_call.args[2] = 266
    /\ SubSeq(Get(u_out), 12, 17) = <<":", "0", "a", ":", "0", "0">>

\* the id a call of an id function stands for, and the record of its scope
IdOfCall(call) ==
    IF call.op = "generate_vm_id" THEN (HashOfMac[call.args[1]] % VM_MAXID) + 1
    ELSE (HashOfDpid[call.args[2]] % SWITCH_MAXID) + 1

\* C15: a call of create_swc_vmac or generate_vm_id gives hash mod MAXID + 1, in
\* 1..MAXID; a marked id is given again with the records as they were, an unmarked
\* one is marked in the record of its scope and nowhere else; no id is unmarked.
C15_IdsLogOnlyOnCollision ==
    /\ []((u_pc = "ids" /\ u_call.op = "generate_vm_id") =>
            /\ Get(u_out) = IdOfCall(u_call)
            /\ Get(u_out) \in 1..VM_MAXID
            /\ Get(u_out) \in vm_conflict_record[u_call.args[2]])
    /\ []((u_pc = "ids" /\ u_call.op = "create_swc_vmac") =>
            LET n == (256 * ByteAt(Get(u_out), 3)) + ByteAt(Get(u_out), 4)
            IN  /\ IsVmac(Get(u_out))
                /\ n = IdOfCall(u_call)
                /\ n \in 1..SWITCH_MAXID
                /\ n \in swc_conflict_record
                /\ get_dc_prefix(Get(u_out)) = get_dc_prefix(u_call.args[1]))
    /\ [][u_pc = "ids" =>
            /\ swc_conflict_record \subseteq swc_conflict_record'
            /\ \A d \in DpidIdentities :
                  vm_conflict_record[d] \subseteq vm_conflict_record'[d]
            /\ (u_call'.op = "generate_vm_id" =>
                  /\ swc_conflict_record' = swc_conflict_record
                  /\ vm_conflict_record' =
                        [vm_conflict_record EXCEPT ![u_call'.args[2]] =
                            @ \cup {IdOfCall(u_call')}])
            /\ (u_call'.op = "create_swc_vmac" =>
                  /\ vm_conflict_record' = vm_conflict_record
                  /\ swc_conflict_record' =
                        swc_conflict_record \cup {IdOfCall(u_call')})]_vars

\* two switches with one number: the second call finds it marked
C15_Witness ==
    /\ u_pc = "ids" /\ u_call.op = "create_swc_vmac" /\ u_call.args[2] = gateway
    /\ swc_conflict_record = {8, SWITCH_MAXID}
    /\ \E d \in DpidIdentities : vm_conflict_record[d] = {10, 1}

RpcReturned(p, op) == rpc_pc[p] = "idle" /\ rpc_call[p].op = op

\* the flow was sent and the commit was called: the call ends "ok" exactly when
\* the commit succeeded
CommitCalled(p) ==
    /\ rpc_txn[p].status \in {"committed", "failed"}
    /\ (rpc_res[p] = "ok") <=> (rpc_txn[p].status = "committed")

\* C16: redirect_local_flow to another datacenter sends one rewrite flow, to switch
\* dpid_old, matching vmac_old, rewriting to vmac_new, out of the port of dpid_old
\* towards the local gateway, and nothing to any other switch; the flow is sent
\* before the commit, which is then called. A dpid_old without such a port gives
\* KeyError and no flow.
C16_RedirectInstallsRewriteFlow ==
    \A p \in RpcProcs :
        (rpc_call[p].op = "redirect_local_flow" /\ rpc_call[p].args[4] # LocalDcenter) =>
            LET a == rpc_call[p].args
            IN  IF HasConn(a[1], "g1")
                THEN /\ rpc_sb[p] = <<InstallRewriteFlow(a[1], a[2], a[3],
                                                          dpid_to_conns[a[1]]["g1"])>>
                     /\ rpc_pc[p] = "idle" => CommitCalled(p)
                     /\ rpc_pc[p] = "commit" => rpc_txn[p].status = "open"
                ELSE /\ rpc_pc[p] = "idle"
                     /\ rpc_res[p] = "KeyError"
                     /\ rpc_sb[p] = <<>>

C16_Witness ==
    \E p \in RpcProcs :
        /\ RpcReturned(p, "redirect_local_flow")
        /\ rpc_call[p].args[4] = PeerDcenter
        /\ rpc_res[p] = "ok"
        /\ rpc_sb[p] = <<InstallRewriteFlow(Switch1, VmacA, VmacB, <<"3">>)>>

\* C17: set_gateway_flow for a datacenter of the peer table sends one rewrite flow,
\* to the gateway switch, matching vmac_old, rewriting to vmac_new, out of the
\* gateway's port towards the gateway of that datacenter, then calls the commit;
\* no step changes the peer table.
C17_GatewayFlowTowardsPeer ==
    /\ [](\A p \in RpcProcs :
            (rpc_call[p].op = "set_gateway_flow" /\ rpc_call[p].args[3] \in DOMAIN PeerTable) =>
                LET a == rpc_call[p].args
                IN  /\ rpc_sb[p] = <<InstallRewriteFlow(gateway, a[1], a[2],
                           dpid_to_conns[gateway][PeerTable[a[3]].gateway_ip])>>
                    /\ rpc_pc[p] = "idle" => CommitCalled(p)
                    /\ rpc_pc[p] = "commit" => rpc_txn[p].status = "open")
    /\ [][dcenter_to_info' = dcenter_to_info]_vars

C17_Witness ==
    \E p \in RpcProcs :
        /\ RpcReturned(p, "set_gateway_flow")
        /\ rpc_res[p] = "ok"
        /\ rpc_sb[p] = <<InstallRewriteFlow(gateway, VmacA, VmacB, <<"9">>)>>
        /\ dcenter_to_info = PeerTable

FlowCall(call) ==
    \/ call.op = "set_gateway_flow"
    \/ call.op = "redirect_local_flow" /\ call.args[4] # LocalDcenter

\* C18: in redirect_local_flow and set_gateway_flow the flow is sent in one step and
\* the commit is a later step; when the commit fails the flow stays sent and the
\* store is as it was.
C18_FlowAndCommitNotAtomic ==
    /\ [](\A p \in RpcProcs :
            FlowCall(rpc_call[p]) =>
                /\ rpc_pc[p] = "commit" =>
                       (Len(rpc_sb[p]) = 1 /\ rpc_txn[p].status = "open")
                /\ rpc_txn[p].status = "failed" =>
                       (Len(rpc_sb[p]) = 1
                          /\ rpc_res[p] \in {"ConnectivityError", "TransactionConflictError"}))
    /\ [][\A p \in RpcProcs :
            (FlowCall(rpc_call[p]) /\ rpc_pc[p] = "commit"
               /\ rpc_txn'[p].status = "failed") =>
                (zk_data' = zk_data /\ rpc_sb'[p] = rpc_sb[p])]_vars

C18_Witness ==
    \E p, q \in RpcProcs :
        /\ RpcReturned(p, "redirect_local_flow") /\ RpcReturned(q, "set_gateway_flow")
        /\ rpc_txn[p].status = "failed" /\ rpc_txn[q].status = "failed"
        /\ Len(rpc_sb[p]) = 1 /\ Len(rpc_sb[q]) = 1
        /\ \A k \in StoreKeys : zk_data[k] = None

\* C19: an event queued while a dispatch runs is only appended to the FIFO; events
\* reach the dispatcher only at the start of queue() and in its loop, never from
\* within a handler, in the order they were queued and once each; a queue() call
\* that returns leaves the FIFO empty and the flag false, and every call ends.
C19_NoReentrantDispatch ==
    /\ [](eq_pc # "idle" =>
            /\ is_dispatching
            /\ Len(eq_dispatched) >= 1
            /\ Tail(eq_dispatched) \o ev_q = eq_deferred)
    /\ [](\A i, j \in 1..Len(eq_dispatched) :
            eq_dispatched[i] = eq_dispatched[j] => i = j)
    /\ []((eq_pc = "idle" /\ eq_res = "ok") =>
            /\ ev_q = <<>>
            /\ ~is_dispatching
            /\ Tail(eq_dispatched) = eq_deferred)
    /\ [][eq_dispatched' # eq_dispatched => eq_pc \in {"idle", "loop"}]_vars
    /\ (eq_pc # "idle") ~> (eq_pc = "idle")

C19_Witness ==
    /\ eq_pc = "idle" /\ eq_res = "ok"
    /\ Len(eq_dispatched) = 4
    /\ eq_deferred = <<2, 3, 4>>

\* C20: whenever no queue() call is running, the flag is false and the FIFO is
\* empty, so the assertion of queue() never fails.
C20_AssertionHolds ==
    /\ eq_res # "AssertionError"
    /\ (eq_pc = "idle" /\ ~is_dispatching) => ev_q = <<>>

\* C23: a handler that has returned normally has had the commit of the transaction
\* it opened called (the transaction is committed, never left open).
C23_TransactionCommittedOnReturn ==
    \A p \in RpcProcs :
        (rpc_pc[p] = "idle" /\ rpc_txn[p].status # "none" /\ rpc_res[p] = "ok") =>
            rpc_txn[p].status = "committed"

\* C24: every packet sent toward the DHCP server goes to a (switch, port) pair
\* that was passed together to one update_server call.
C24_RelayNeverUsesMixedPair ==
    (r_pc = "idle" /\ r_res = "to_server") =>
        \A i \in 1..Len(r_out) :
            \E c \in b_calls :
                /\ r_out[i].dpid = str_to_dpid(c.dpid)
                /\ r_out[i].out_port = c.port

DispatchDone == d_pc = "idle" /\ d_res = "ok"

\* the k-th list as its _dispatch call found it
SeenOfKind(k) == IF d_seen[k] = None THEN <<>> ELSE Get(d_seen[k])

\* the entries of the log that belong to the k-th list
LogOfKind(k) == SelectSeq(d_log, LAMBDA e : e.kind = k)

\* C21: the handlers of one event are called list by list, the all-handlers first,
\* then the inheritable handlers of the class, then the handlers of the class, each
\* list from its first registered handler on (a registration appends); only the
\* last handler called from a list may have returned False, and a list ends early
\* only then, the later lists still being dispatched; the event is logged as
\* unhandled exactly when the inheritable and the class list were both empty.
C21_DispatchOrder ==
    /\ [](\A i, j \in 1..Len(d_log) : i < j => d_log[i].kind <= d_log[j].kind)
    /\ [](\A k \in 1..3 : \A i \in 1..Len(LogOfKind(k)) :
            /\ i <= Len(SeenOfKind(k))
            /\ LogOfKind(k)[i].h = SeenOfKind(k)[i]
            /\ i < Len(LogOfKind(k)) => LogOfKind(k)[i].ret = "None")
    /\ [](DispatchDone =>
            /\ \A k \in 1..3 :
                  /\ d_seen[k] # None
                  /\ \/ Len(LogOfKind(k)) = Len(SeenOfKind(k))
                     \/ /\ LogOfKind(k) # <<>>
                        /\ LogOfKind(k)[Len(LogOfKind(k))].ret = "False"
            /\ d_unhandled <=> (SeenOfKind(2) = <<>> /\ SeenOfKind(3) = <<>>))
    /\ [][\A k \in 1..3, c \in EvClasses :
            Len(ListOfKind(k, c)') > Len(ListOfKind(k, c)) =>
                \E h \in Handlers : ListOfKind(k, c)' = Append(ListOfKind(k, c), h)]_vars

\* the first all-handler returned False, the second was not called, and the handler
\* of the class was
C21_Witness ==
    /\ DispatchDone
    /\ Len(SeenOfKind(1)) = 2 /\ SeenOfKind(2) = <<>> /\ Len(SeenOfKind(3)) = 1
    /\ Len(d_log) = 2
    /\ d_log[1].kind = 1 /\ d_log[1].ret = "False"
    /\ d_log[2].kind = 3
    /\ ~d_unhandled

\* the handlers called from the k-th list, in the order of the calls
CalledOfKind(k) == [i \in 1..Len(LogOfKind(k)) |-> LogOfKind(k)[i].h]

\* C22: the handler that runs is the one at the loop position in the list as it was
\* when the dispatch of that list started, whatever was registered or unregistered
\* since; a dispatch that ended has called, from each list, the handlers of that
\* snapshot up to the first that returned False, each once and no other; and a list
\* whose dispatch starts is taken as it is then, with the changes made before.
C22_HandlersOfSnapshotRun ==
    /\ [](d_pc = "handler" =>
            /\ Len(LogOfKind(d_kind)) = d_i
            /\ d_i <= Len(SeenOfKind(d_kind))
            /\ d_log[Len(d_log)].h = SeenOfKind(d_kind)[d_i])
    /\ [](DispatchDone =>
            \A k \in 1..3 :
                /\ Len(CalledOfKind(k)) <= Len(SeenOfKind(k))
                /\ CalledOfKind(k) = SubSeq(SeenOfKind(k), 1, Len(CalledOfKind(k)))
                /\ (\A i \in 1..Len(LogOfKind(k)) : LogOfKind(k)[i].ret # "False")
                      => CalledOfKind(k) = SeenOfKind(k))
    /\ [][(d_pc = "loop" /\ d_i = 1 /\ d_pc' = "handler") =>
            d_log'[Len(d_log')].h = ListOfKind(d_kind, Get(d_ev))[1]]_vars

\* while f ran, g was unregistered and f registered once more: g was still called
\* for this event, the second f was not
C22_Witness ==
    /\ DispatchDone
    /\ SeenOfKind(3) = <<"f", "g">>
    /\ CalledOfKind(3) = <<"f", "g">>
    /\ events["EvA"] = Some(<<"f", "f">>)

====
